---- MODULE Spec2Model ----
(***************************************************************************)
(* A model of the Result helpers of starfx-helpers: construction           *)
(* (createOk, createErr, normalizeResultLike), classification              *)
(* (isJSONString, isResult, ...), transformation (mapResult, mapUnknown,   *)
(* bimapResult, coalesceResult, valueOr), unpacking (matchCall,            *)
(* unpackResult, normalizeError) and the runner safeLast.                  *)
(*                                                                         *)
(* JavaScript values are tagged records.  A JavaScript string is a         *)
(* sequence of lexemes: the JSON structural characters { } [ ] : , the     *)
(* double quote and the backslash, each on its own, and words (maximal     *)
(* runs of other characters).  JSON.stringify and JSON.parse work on       *)
(* these sequences, escaping and unescaping quotes and backslashes.        *)
(***************************************************************************)
EXTENDS Integers, Sequences, FiniteSets, TLC

\* ------------------------------------------------------------------ bounds

\* Envelope layers wrapped around a base value in the generated inputs.
MaxNest == 2
\* Numbers that occur as values are 0 .. MaxNum.
MaxNum == 42
\* Activations of mapUnknown the call stack has room for.
MaxSteps == 6

\* ------------------------------------------------------------------ values

Undef == [t |-> "undefined"]
Null == [t |-> "null"]
Bool(b) == [t |-> "boolean", b |-> b]
Num(n) == [t |-> "number", n |-> n]
Str(s) == [t |-> "string", s |-> s]
Arr(a) == [t |-> "array", a |-> a]
\* kv: the own enumerable properties, in insertion order, as <<key, value>>
Obj(kv) == [t |-> "object", kv |-> kv]
\* an Error instance: constructor name and message
ErrorOf(name, m) == [t |-> "error", name |-> name, msg |-> m]
Err(m) == ErrorOf("Error", m)
Fun(id) == [t |-> "function", id |-> id]
\* a BigInt, as in 1n
BigInt(n) == [t |-> "bigint", n |-> n]

\* typeof v
TypeOf(v) ==
  CASE v.t = "undefined" -> "undefined"
    [] v.t = "boolean" -> "boolean"
    [] v.t = "number" -> "number"
    [] v.t = "string" -> "string"
    [] v.t = "function" -> "function"
    [] v.t = "bigint" -> "bigint"
    [] OTHER -> "object"

\* v instanceof Error
InstanceOfError(v) == v.t = "error"

\* the truthiness of v in a condition
Truthy(v) ==
  CASE v.t = "undefined" -> FALSE
    [] v.t = "null" -> FALSE
    [] v.t = "boolean" -> v.b
    [] v.t = "number" -> v.n # 0
    [] v.t = "bigint" -> v.n # 0
    [] v.t = "string" -> v.s # <<>>
    [] OTHER -> TRUE

\* key in v, for v of typeof "object" and not null
HasKey(v, k) ==
  CASE v.t = "object" -> \E i \in 1..Len(v.kv) : v.kv[i][1] = k
    [] v.t = "error" -> k \in {<<"message">>, <<"stack">>}
    [] OTHER -> FALSE

\* v[k], for v neither null nor undefined
Get(v, k) ==
  CASE v.t = "object" ->
         IF \E i \in 1..Len(v.kv) : v.kv[i][1] = k
         THEN v.kv[CHOOSE i \in 1..Len(v.kv) : v.kv[i][1] = k][2]
         ELSE Undef
    [] v.t = "error" -> IF k = <<"message">> THEN Str(v.msg) ELSE Undef
    [] OTHER -> Undef

\* reading a property of null or undefined throws a TypeError
Nullish(v) == v.t \in {"undefined", "null"}

\* ------------------------------------------------------------------ String()

RECURSIVE ToStr(_)
RECURSIVE JoinStr(_, _)
\* the elements of an array joined by commas; null and undefined give ""
JoinStr(a, i) ==
  IF i > Len(a) THEN <<>>
  ELSE (IF i > 1 THEN <<",">> ELSE <<>>)
       \o (IF Nullish(a[i]) THEN <<>> ELSE ToStr(a[i]))
       \o JoinStr(a, i + 1)

\* String(v)
ToStr(v) ==
  CASE v.t = "undefined" -> <<"undefined">>
    [] v.t = "null" -> <<"null">>
    [] v.t = "boolean" -> IF v.b THEN <<"true">> ELSE <<"false">>
    [] v.t = "number" -> <<ToString(v.n)>>
    [] v.t = "bigint" -> <<ToString(v.n)>>
    [] v.t = "string" -> v.s
    [] v.t = "array" -> JoinStr(v.a, 1)
    [] v.t = "object" -> <<"[object Object]">>
    [] v.t = "error" -> IF v.msg = <<>> THEN <<v.name>>
                        ELSE <<v.name, ": ">> \o v.msg
    [] OTHER -> <<"function">>

\* new Error(m): the message is "" for undefined, String(m) otherwise
NewError(m) == Err(IF m.t = "undefined" THEN <<>> ELSE ToStr(m))

\* ------------------------------------------------------------------ JSON

Quote == "\""
Backslash == "\\"

RECURSIVE Escape(_)
Escape(s) ==
  IF s = <<>> THEN <<>>
  ELSE (IF Head(s) \in {Quote, Backslash} THEN <<Backslash, Head(s)>>
        ELSE <<Head(s)>>) \o Escape(Tail(s))

\* a property whose value is undefined or a function is left out
Skipped(v) == v.t \in {"undefined", "function"}

RECURSIVE Ser(_)
RECURSIVE SerElems(_, _)
RECURSIVE SerMembers(_, _, _)
SerElems(a, i) ==
  IF i > Len(a) THEN <<>>
  ELSE (IF i > 1 THEN <<",">> ELSE <<>>)
       \o (IF Skipped(a[i]) THEN <<"null">> ELSE Ser(a[i]))
       \o SerElems(a, i + 1)

SerMembers(kv, i, first) ==
  IF i > Len(kv) THEN <<>>
  ELSE IF Skipped(kv[i][2]) THEN SerMembers(kv, i + 1, first)
  ELSE (IF first THEN <<>> ELSE <<",">>)
       \o <<Quote>> \o Escape(kv[i][1]) \o <<Quote, ":">> \o Ser(kv[i][2])
       \o SerMembers(kv, i + 1, FALSE)

\* the JSON text of a value that has one
Ser(v) ==
  CASE v.t = "null" -> <<"null">>
    [] v.t = "boolean" -> IF v.b THEN <<"true">> ELSE <<"false">>
    [] v.t = "number" -> <<ToString(v.n)>>
    [] v.t = "string" -> <<Quote>> \o Escape(v.s) \o <<Quote>>
    [] v.t = "array" -> <<"[">> \o SerElems(v.a, 1) \o <<"]">>
    [] v.t = "object" -> <<"{">> \o SerMembers(v.kv, 1, TRUE) \o <<"}">>
    [] OTHER -> <<"{", "}">>

\* JSON.stringify(v): undefined for undefined and functions
JSONstringify(v) == IF Skipped(v) THEN Undef ELSE Str(Ser(v))

\* JSON.stringify throws a TypeError on a BigInt, wherever in the value it is
RECURSIVE Serializable(_)
Serializable(v) ==
  CASE v.t = "bigint" -> FALSE
    [] v.t = "array" -> \A i \in 1..Len(v.a) : Serializable(v.a[i])
    [] v.t = "object" -> \A i \in 1..Len(v.kv) : Serializable(v.kv[i][2])
    [] OTHER -> TRUE

NumWords == {ToString(n) : n \in 0..MaxNum}
WordNum(w) == CHOOSE n \in 0..MaxNum : ToString(n) = w

At(s, i) == IF i <= Len(s) THEN s[i] ELSE "EOF"
NoParse == [ok |-> FALSE, v |-> Null, i |-> 0]
Parsed(v, i) == [ok |-> TRUE, v |-> v, i |-> i]

\* obj[k] = v while parsing: a repeated key keeps its place, the last value wins
Put(kv, k, v) ==
  IF \E i \in 1..Len(kv) : kv[i][1] = k
  THEN [i \in 1..Len(kv) |-> IF kv[i][1] = k THEN <<k, v>> ELSE kv[i]]
  ELSE Append(kv, <<k, v>>)

RECURSIVE PValue(_, _)
RECURSIVE PChars(_, _, _)
RECURSIVE PMembers(_, _, _)
RECURSIVE PElems(_, _, _)

\* the characters of a string literal up to its closing quote
PChars(s, i, acc) ==
  LET c == At(s, i) IN
  CASE c = "EOF" -> NoParse
    [] c = Quote -> [ok |-> TRUE, v |-> acc, i |-> i + 1]
    [] c = Backslash ->
         IF At(s, i + 1) \in {Quote, Backslash}
         THEN PChars(s, i + 2, Append(acc, At(s, i + 1)))
         ELSE NoParse
    [] OTHER -> PChars(s, i + 1, Append(acc, c))

PMembers(s, i, acc) ==
  IF At(s, i) # Quote THEN NoParse
  ELSE LET k == PChars(s, i + 1, <<>>) IN
       IF ~k.ok \/ At(s, k.i) # ":" THEN NoParse
       ELSE LET val == PValue(s, k.i + 1) IN
            IF ~val.ok THEN NoParse
            ELSE LET acc2 == Put(acc, k.v, val.v) IN
                 CASE At(s, val.i) = "," -> PMembers(s, val.i + 1, acc2)
                   [] At(s, val.i) = "}" -> Parsed(Obj(acc2), val.i + 1)
                   [] OTHER -> NoParse

PElems(s, i, acc) ==
  LET val == PValue(s, i) IN
  IF ~val.ok THEN NoParse
  ELSE LET acc2 == Append(acc, val.v) IN
       CASE At(s, val.i) = "," -> PElems(s, val.i + 1, acc2)
         [] At(s, val.i) = "]" -> Parsed(Arr(acc2), val.i + 1)
         [] OTHER -> NoParse

PValue(s, i) ==
  LET c == At(s, i) IN
  CASE c = "{" -> IF At(s, i + 1) = "}" THEN Parsed(Obj(<<>>), i + 2)
                  ELSE PMembers(s, i + 1, <<>>)
    [] c = "[" -> IF At(s, i + 1) = "]" THEN Parsed(Arr(<<>>), i + 2)
                  ELSE PElems(s, i + 1, <<>>)
    [] c = Quote -> LET r == PChars(s, i + 1, <<>>) IN
                    IF r.ok THEN Parsed(Str(r.v), r.i) ELSE NoParse
    [] c = "true" -> Parsed(Bool(TRUE), i + 1)
    [] c = "false" -> Parsed(Bool(FALSE), i + 1)
    [] c = "null" -> Parsed(Null, i + 1)
    [] c \in NumWords -> Parsed(Num(WordNum(c)), i + 1)
    [] OTHER -> NoParse

\* JSON.parse(x): x is first converted to a string; ok is FALSE when it throws
JSONparse(x) ==
  LET s == ToStr(x)
      r == PValue(s, 1)
  IN IF r.ok /\ r.i = Len(s) + 1 THEN [ok |-> TRUE, v |-> r.v]
     ELSE [ok |-> FALSE, v |-> Null]

\* ------------------------------------------------------------------ outcomes

\* how a call ends: it returns v, or throws v
Ret(v) == [kind |-> "return", v |-> v]
Throw(v) == [kind |-> "throw", v |-> v]
NoOutcome == [kind |-> "none", v |-> Undef]
\* reading a property of null or undefined
PropertyOfNullish == Throw(ErrorOf("TypeError", <<"Cannot read properties of null or undefined">>))
\* the in operator applied to a primitive
InOnPrimitive == Throw(ErrorOf("TypeError", <<"Cannot use 'in' operator">>))
\* a call made when the call stack is full
StackOverflow == Throw(ErrorOf("RangeError", <<"Maximum call stack size exceeded">>))
\* JSON.stringify applied to a value that holds a BigInt
StringifyThrows == Throw(ErrorOf("TypeError", <<"Do not know how to serialize a BigInt">>))

K(w) == <<w>>
\* { ok: true, value: v } and { ok: false, error: e }
OkObj(v) == Obj(<<<<K("ok"), Bool(TRUE)>>, <<K("value"), v>>>>)
ErrObj(e) == Obj(<<<<K("ok"), Bool(FALSE)>>, <<K("error"), e>>>>)

\* ------------------------------------------------------------------ classification

\* isJSONString without the test for null
isJSONStringNullToo(str) ==
  LET obj == JSONparse(str) IN
  obj.ok /\ TypeOf(obj.v) = "object"

\* isJSONString(str): JSON.parse succeeds and gives a non-null value of typeof "object"
isJSONString(str) ==
  LET obj == JSONparse(str) IN
  obj.ok /\ TypeOf(obj.v) = "object" /\ obj.v # Null

\* isOk(result), isErr(result) of the classification module; result is not nullish
isOk(result) == Get(result, K("ok")) = Bool(TRUE)
isErrBasic(result) == Get(result, K("ok")) = Bool(FALSE)

\* isResult(p): p.ok !== undefined; p is not nullish
isResult(p) == Get(p, K("ok")) # Undef

\* isResultDelphi(arg), for arg not nullish
isResultDelphi(arg) ==
  \/ /\ TypeOf(arg) = "object"
     /\ HasKey(arg, K("ok"))
     /\ Get(arg, K("ok")) = Bool(TRUE)
     /\ HasKey(arg, K("value"))
  \/ /\ Get(arg, K("ok")) = Bool(FALSE)
     /\ HasKey(arg, K("error"))

isResultLikeErr(arg) ==
  isResultDelphi(arg) /\ Get(arg, K("ok")) = Bool(FALSE) /\ HasKey(arg, K("error"))

\* ------------------------------------------------------------------ construction

createOk(value) ==
  IF InstanceOfError(value)
  THEN Throw(Err(<<"createOk: value cannot be an Error">>))
  ELSE Ret(OkObj(value))

\* createErr serializing strings and numbers like objects
createErrSerializesAll(error) ==
  IF InstanceOfError(error) THEN Ret(ErrObj(error))
  ELSE IF TypeOf(error) = "undefined" THEN Ret(ErrObj(Err(<<"Undefined error">>)))
  ELSE IF TypeOf(error) \in {"boolean", "function"}
       THEN Throw(ErrorOf("TypeError", <<"Unsupported type for error in createErr function">>))
  ELSE Ret(ErrObj(NewError(JSONstringify(error))))

createErr(error) ==
  IF InstanceOfError(error) THEN Ret(ErrObj(error))
  ELSE IF TypeOf(error) \in {"string", "number"} THEN Ret(ErrObj(Err(ToStr(error))))
  ELSE IF error = Null \/ TypeOf(error) = "object"
       THEN IF Serializable(error) THEN Ret(ErrObj(NewError(JSONstringify(error))))
            ELSE StringifyThrows
  ELSE IF TypeOf(error) = "undefined" THEN Ret(ErrObj(Err(<<"Undefined error">>)))
  ELSE Throw(ErrorOf("TypeError", <<"Unsupported type for error in createErr function">>))

normalizeResultLike(d7) ==
  IF Nullish(d7) THEN PropertyOfNullish
  ELSE IF Get(d7, K("ok")) = Bool(TRUE) THEN createOk(Get(d7, K("value")))
  ELSE IF Get(d7, K("ok")) = Bool(FALSE) /\ isResultLikeErr(d7)
       THEN createErr(NewError(Get(d7, K("error"))))
  ELSE IF InstanceOfError(d7) THEN createErr(d7)
  ELSE IF TypeOf(d7) = "object" /\ HasKey(d7, K("error"))
       THEN createErr(NewError(Get(d7, K("error"))))
  ELSE IF TypeOf(d7) = "object" /\ HasKey(d7, K("value"))
       THEN createOk(Get(d7, K("value")))
  ELSE createOk(d7)

\* ------------------------------------------------------------------ caller-supplied functions

Fns == {"identity", "wrapOk", "wrapErr", "constNull", "peel", "tag"}

\* x => g(f(x)), for f and g of Fns
Compositions == [p \in Fns \X Fns |-> p[1] \o ">" \o p[2]]
Compose(f, g) == Compositions[<<f, g>>]
Composed == {Compositions[p] : p \in Fns \X Fns}

\* what the caller-supplied function f returns for x
RECURSIVE Apply(_, _)
Apply(f, x) ==
  CASE f = "identity" -> x
    [] f = "wrapOk" -> OkObj(x)
    [] f = "wrapErr" -> ErrObj(Err(<<"boom">>))
    [] f = "constNull" -> Null
    [] f = "peel" -> IF TypeOf(x) = "object" /\ HasKey(x, K("value"))
                     THEN Get(x, K("value")) ELSE x
    [] f \in Composed ->
         LET p == CHOOSE p \in Fns \X Fns : Compose(p[1], p[2]) = f
         IN Apply(p[2], Apply(p[1], x))
    [] OTHER -> Obj(<<<<K("tag"), x>>>>)

Malformed == Throw(Err(<<"Malformed Result object">>))

\* the transformation operators give their outcome and the calls they made of
\* the caller's functions, each as <<function, argument>>
Done(o, c) == [out |-> o, calls |-> c]

\* mapResult handing fn the Result instead of its value
mapResultOfResult(result, f) ==
  IF Nullish(result) THEN Done(PropertyOfNullish, <<>>)
  ELSE IF isOk(result)
       THEN Done(Ret(OkObj(Apply(f, result))), << <<f, result>> >>)
  ELSE Done(Ret(ErrObj(Get(result, K("error")))), <<>>)

mapResult(result, f) ==
  IF Nullish(result) THEN Done(PropertyOfNullish, <<>>)
  ELSE IF isOk(result)
       THEN Done(Ret(OkObj(Apply(f, Get(result, K("value"))))),
                 << <<f, Get(result, K("value"))>> >>)
  ELSE Done(Ret(ErrObj(Get(result, K("error")))), <<>>)

bimapResult(result, mapErr, mapValue) ==
  IF Nullish(result) THEN Done(PropertyOfNullish, <<>>)
  ELSE IF Truthy(Get(result, K("ok")))
       THEN Done(Ret(OkObj(Apply(mapValue, Get(result, K("value"))))),
                 << <<mapValue, Get(result, K("value"))>> >>)
  ELSE IF Get(result, K("ok")) = Bool(FALSE) /\ HasKey(result, K("error"))
       THEN Done(Ret(ErrObj(Apply(mapErr, Get(result, K("error"))))),
                 << <<mapErr, Get(result, K("error"))>> >>)
  ELSE Done(Malformed, <<>>)

coalesceResult(result, mapErrToOk, mapOk) ==
  IF Nullish(result) THEN Done(PropertyOfNullish, <<>>)
  ELSE IF Truthy(Get(result, K("ok")))
       THEN Done(Ret(OkObj(Apply(mapOk, Get(result, K("value"))))),
                 << <<mapOk, Get(result, K("value"))>> >>)
  ELSE IF TypeOf(result) \notin {"object", "function"} THEN Done(InOnPrimitive, <<>>)
  ELSE IF HasKey(result, K("error"))
       THEN Done(Ret(OkObj(Apply(mapErrToOk, Get(result, K("error"))))),
                 << <<mapErrToOk, Get(result, K("error"))>> >>)
  ELSE Done(Malformed, <<>>)

\* defaultValueOrFunc is a value; a function value Fun(f) is called with the error
valueOr(result, defaultValueOrFunc) ==
  IF Nullish(result) THEN Done(PropertyOfNullish, <<>>)
  ELSE IF isOk(result) THEN Done(Ret(Get(result, K("value"))), <<>>)
  ELSE IF isErrBasic(result)
       THEN IF TypeOf(defaultValueOrFunc) = "function"
            THEN Done(Ret(Apply(defaultValueOrFunc.id, Get(result, K("error")))),
                      << <<defaultValueOrFunc.id, Get(result, K("error"))>> >>)
            ELSE Done(Ret(defaultValueOrFunc), <<>>)
  ELSE Done(Malformed, <<>>)

\* one activation of mapUnknown(result, fn): it returns, throws, or calls itself
\* on the intermediate Result
Returns(o) == [k |-> "ret", o |-> o, v |-> Undef]
Calls(k, v) == [k |-> k, o |-> NoOutcome, v |-> v]

\* mapUnknown wrapping the intermediate value whatever it is, as mapResult does
mapUnknownBodyNoFlatten(result, f) ==
  IF Nullish(result) THEN Returns(PropertyOfNullish)
  ELSE IF isOk(result) THEN Returns(Ret(OkObj(Apply(f, Get(result, K("value"))))))
  ELSE Returns(Ret(ErrObj(Get(result, K("error")))))

mapUnknownBody(result, f) ==
  IF Nullish(result) THEN Returns(PropertyOfNullish)
  ELSE IF isOk(result)
       THEN LET intermediate == Apply(f, Get(result, K("value"))) IN
            IF Nullish(intermediate) THEN Returns(PropertyOfNullish)
            ELSE IF isResult(intermediate) THEN Calls("mapUnknown", intermediate)
            ELSE Returns(Ret(OkObj(intermediate)))
  ELSE Returns(Ret(ErrObj(Get(result, K("error")))))

\* ------------------------------------------------------------------ unpacking

\* isErr of the unpacking module: result?.ok === false && "error" in result
isErr(result) ==
  /\ ~Nullish(result)
  /\ Get(result, K("ok")) = Bool(FALSE)
  /\ HasKey(result, K("error"))

isObjectWithKeys(obj, keys) ==
  TypeOf(obj) = "object" /\ obj # Null /\ \A key \in keys : HasKey(obj, key)

isApiCtx(arg) ==
  /\ isObjectWithKeys(arg, {K("key"), K("name"), K("json")})
  /\ isObjectWithKeys(Get(arg, K("json")), {K("ok"), K("data")})

isThunkCtx(arg) ==
  /\ isObjectWithKeys(arg, {K("action"), K("actionFn"), K("key"), K("name"), K("result")})
  /\ isObjectWithKeys(Get(arg, K("result")), {K("ok")})

\* one activation of normalizeError(error): it returns an Error, calls itself,
\* or throws what JSON.stringify throws
normalizeErrorBody(error) ==
  IF InstanceOfError(error) THEN Returns(Ret(error))
  ELSE IF TypeOf(error) = "object" /\ error # Null
       THEN IF HasKey(error, K("message"))
            THEN Calls("normalizeError", Get(error, K("message")))
            ELSE IF Serializable(error) THEN Returns(Ret(NewError(JSONstringify(error))))
            ELSE Returns(StringifyThrows)
  ELSE IF TypeOf(error) = "string"
       THEN IF isJSONString(error)
            THEN Calls("normalizeError", JSONparse(error).v)
            ELSE Returns(Ret(NewError(error)))
  ELSE IF Serializable(error) THEN Returns(Ret(NewError(JSONstringify(error))))
  ELSE Returns(StringifyThrows)

\* the pair [err, val] unpackResult returns
Pair(err, val) == [t |-> "pair", err |-> err, val |-> val]

\* unpackResult calling itself on the outer Result of a thunk context
unpackResultBodySameResult(result) ==
  IF Truthy(Get(result, K("ok")))
  THEN LET value == Get(result, K("value")) IN
       IF isApiCtx(value)
       THEN Calls("unpackResult",
                  Obj(<<<<K("ok"), Get(Get(value, K("json")), K("ok"))>>,
                        <<K("value"), Get(Get(value, K("json")), K("data"))>>>>))
       ELSE IF isThunkCtx(value) THEN Calls("unpackResult", result)
       ELSE IF /\ TypeOf(value) = "string"
               /\ isJSONString(value)
               /\ isResult(JSONparse(value).v)
            THEN Calls("unpackResult", JSONparse(value).v)
       ELSE Returns(Ret(Pair(Null, value)))
  ELSE IF isErr(result) THEN Calls("normalizeError", Get(result, K("error")))
  ELSE Returns(Ret(Pair(Str(<<"Malformed Result object">>), Null)))

\* one activation of unpackResult(result): it returns a pair, calls itself on an
\* inner Result, or calls normalizeError on the error
unpackResultBody(result) ==
  IF Truthy(Get(result, K("ok")))
  THEN LET value == Get(result, K("value")) IN
       IF isApiCtx(value)
       THEN Calls("unpackResult",
                  Obj(<<<<K("ok"), Get(Get(value, K("json")), K("ok"))>>,
                        <<K("value"), Get(Get(value, K("json")), K("data"))>>>>))
       ELSE IF isThunkCtx(value) THEN Calls("unpackResult", Get(value, K("result")))
       ELSE IF /\ TypeOf(value) = "string"
               /\ isJSONString(value)
               /\ isResult(JSONparse(value).v)
            THEN Calls("unpackResult", JSONparse(value).v)
       ELSE Returns(Ret(Pair(Null, value)))
  ELSE IF isErr(result) THEN Calls("normalizeError", Get(result, K("error")))
  ELSE Returns(Ret(Pair(Str(<<"Malformed Result object">>), Null)))

\* matchCall returning val as unpackResult gave it
afterUnpackReturnsVal(pair) ==
  IF Truthy(pair.err) THEN Calls("matchCall", NewError(pair.err))
  ELSE Returns(Ret(pair.val))

\* what matchCall does with the pair unpackResult gave it: it calls itself on a
\* new Error when err is truthy, on val otherwise
afterUnpack(pair) ==
  IF Truthy(pair.err) THEN Calls("matchCall", NewError(pair.err))
  ELSE Calls("matchCall", pair.val)

\* matchCall returning the parsed form of a JSON string that is no Result
matchCallBodyReturnsParsed(result) ==
  IF Nullish(result) THEN Returns(Ret(result))
  ELSE IF TypeOf(result) = "string" /\ isJSONString(result)
       THEN IF isResult(JSONparse(result).v)
            THEN Calls("matchCall", JSONparse(result).v)
            ELSE Returns(Ret(JSONparse(result).v))
  ELSE IF TypeOf(result) = "string" THEN Returns(Ret(result))
  ELSE IF isResult(result) THEN Calls("unpackResult", result)
  ELSE IF InstanceOfError(result)
       THEN Returns(Ret(Err(IF result.msg # <<>> THEN result.msg ELSE ToStr(result))))
  ELSE Returns(Ret(result))

\* matchCall building the new Error from String(result) alone
matchCallBodyStringOfError(result) ==
  IF Nullish(result) THEN Returns(Ret(result))
  ELSE IF TypeOf(result) = "string" /\ isJSONString(result) /\ isResult(JSONparse(result).v)
       THEN Calls("matchCall", JSONparse(result).v)
  ELSE IF TypeOf(result) = "string" /\ ~isJSONString(result) THEN Returns(Ret(result))
  ELSE IF isResult(result) THEN Calls("unpackResult", result)
  ELSE IF InstanceOfError(result) THEN Returns(Ret(Err(ToStr(result))))
  ELSE Returns(Ret(result))

\* one activation of matchCall(result, customErrorMessage, output, throws): it
\* returns, calls itself, or calls unpackResult.  customErrorMessage, output and
\* throws are only handed on to the recursive calls.
matchCallBody(result) ==
  IF Nullish(result) THEN Returns(Ret(result))
  ELSE IF TypeOf(result) = "string" /\ isJSONString(result) /\ isResult(JSONparse(result).v)
       THEN Calls("matchCall", JSONparse(result).v)
  ELSE IF TypeOf(result) = "string" /\ ~isJSONString(result) THEN Returns(Ret(result))
  ELSE IF isResult(result) THEN Calls("unpackResult", result)
  ELSE IF InstanceOfError(result)
       THEN Returns(Ret(Err(IF result.msg # <<>> THEN result.msg ELSE ToStr(result))))
  ELSE Returns(Ret(result))

\* the activation of p on v, up to its return or its next call.  unpackResult
\* returns its pair to matchCall, and normalizeError its Error to unpackResult,
\* which returns [message, null] to matchCall; matchCall then calls itself.
\* None of the three catches what normalizeError throws.
Activation(p, v) ==
  CASE p = "matchCall" -> matchCallBody(v)
    [] p = "unpackResult" ->
         LET b == unpackResultBody(v) IN
         IF b.k = "ret" THEN afterUnpack(b.o.v) ELSE b
    [] OTHER ->
         LET b == normalizeErrorBody(v) IN
         IF b.k = "ret" /\ b.o.kind = "return"
         THEN afterUnpack(Pair(Str(b.o.v.msg), Null))
         ELSE b

RECURSIVE Run(_, _)
Run(p, v) ==
  LET b == Activation(p, v) IN
  IF b.k = "ret" THEN b.o ELSE Run(b.k, b.v)

\* matchCall(result, customErrorMessage, output, throws), from call to return
matchCall(result) == Run("matchCall", result)

\* ------------------------------------------------------------------ runners

\* safe(() => fn()): the operation's value as a success Result, what it threw
\* as a failure Result
safe(o) == IF o.kind = "return" THEN OkObj(o.v) ELSE ErrObj(o.v)

\* resultOf(input), also named createResult
resultOf(input) ==
  IF InstanceOfError(input) THEN createErr(input) ELSE createOk(input)

\* toFxResult(result): { ...result, cata }
toFxResult(result) == Obj(result.kv \o << <<K("cata"), Fun("cata")>> >>)

\* the last line of safeLast: toFxResult(createResult(result_)), for the
\* result_ the evaluator returned
safeLastReturn(result_) ==
  LET r == resultOf(result_) IN
  IF r.kind = "throw" THEN r ELSE Ret(toFxResult(r.v))

\* ------------------------------------------------------------------ inputs

\* O, E, JO, JE: the ResultLike envelopes and their JSON encodings
O(arg) == OkObj(arg)
E(arg) == ErrObj(arg)
JO(arg) == JSONstringify(O(arg))
JE(arg) == JSONstringify(E(arg))

\* the context of an API call: { key, name, json: { ok, data } }
ApiCtxOf(ok, data) ==
  Obj(<<<<K("key"), Str(<<"k">>)>>, <<K("name"), Str(<<"n">>)>>,
        <<K("json"), Obj(<<<<K("ok"), ok>>, <<K("data"), data>>>>)>>>>)

\* the context of a thunk: { action, actionFn, key, name, result }
ThunkCtxOf(result) ==
  Obj(<<<<K("action"), Obj(<<>>)>>, <<K("actionFn"), Fun("actionFn")>>,
        <<K("key"), Str(<<"k">>)>>, <<K("name"), Str(<<"n">>)>>,
        <<K("result"), result>>>>)

Base ==
  { Undef, Null, Bool(FALSE), Num(0), Num(MaxNum), Str(<<>>), Str(<<"boom">>),
    Str(<<"x failed">>), Obj(<<<<K("a"), Num(1)>>>>), Arr(<<Num(1)>>),
    Err(<<"boom">>), Err(<<>>),
    JSONstringify(Num(MaxNum)), JSONstringify(Obj(<<<<K("a"), Num(1)>>>>)),
    JSONstringify(Arr(<<Num(1)>>)) }

\* one more envelope around v; a context comes as the value of the success
\* Result that running the API call or the thunk gave
Wraps(v) ==
  { O(v), E(v), JO(v), JE(v), Obj(<<<<K("message"), v>>>>),
    O(ApiCtxOf(Bool(TRUE), v)), O(ApiCtxOf(Bool(FALSE), v)), O(ThunkCtxOf(v)) }

RECURSIVE Layer(_)
Layer(n) ==
  IF n = 0 THEN Base
  ELSE LET L == Layer(n - 1) IN L \cup UNION {Wraps(v) : v \in L}

Inputs == Layer(MaxNest)

\* how the operation given to safeLast may end: it returns a value, a thunk
\* context or an API context among them, or throws one
Operations ==
  {Ret(v) : v \in Inputs \cup {BigInt(1)}}
    \cup {Ret(ThunkCtxOf(v)) : v \in Layer(1)}
    \cup {Ret(ApiCtxOf(ok, v)) : ok \in {Bool(TRUE), Bool(FALSE)}, v \in Layer(1)}
    \cup {Throw(v) : v \in Layer(1) \cup {BigInt(1), Obj(<<<<K("id"), BigInt(1)>>>>)}}

\* objects with each combination of ok, value and error, well-formed or not
Absent == [t |-> "absent"]
Field(k, v) == IF v = Absent THEN <<>> ELSE << <<K(k), v>> >>
Shapes ==
  { Obj(Field("ok", ok) \o Field("value", value) \o Field("error", error)) :
      ok \in {Absent, Undef, Null, Bool(TRUE), Bool(FALSE), Num(0), Num(1)},
      value \in {Absent, Undef, Num(MaxNum), O(Num(1))},
      error \in {Absent, Undef, Err(<<"boom">>), Str(<<"boom">>)} }

\* ------------------------------------------------------------------ state

VARIABLES
  fn,     \* the function that was called, "idle" before the call
  arg,    \* its arguments
  pc,     \* the function whose activation runs next, or "done"
  cur,    \* the argument of that activation
  depth,  \* the activations so far
  out,    \* how the call ended
  calls,  \* the calls made of the caller's functions
  prev    \* the outcome out is compared with: that of the first matchCall when
          \* its value is resolved again, that of mapResult with the composition

vars == <<fn, arg, pc, cur, depth, out, calls, prev>>

Init ==
  /\ fn = "idle"
  /\ arg = <<>>
  /\ pc = "idle"
  /\ cur = Undef
  /\ depth = 0
  /\ out = NoOutcome
  /\ calls = <<>>
  /\ prev = NoOutcome

\* a function that runs to its end in one activation
Whole(f, a, d) ==
  /\ fn' = f
  /\ arg' = a
  /\ pc' = "done"
  /\ cur' = Undef
  /\ depth' = 1
  /\ out' = d.out
  /\ calls' = d.calls
  /\ prev' = NoOutcome

CallCreateErr ==
  /\ pc = "idle"
  /\ \E e \in Inputs \cup {Bool(TRUE), Fun("f")} :
     Whole("createErr", <<e>>, Done(createErr(e), <<>>))

CallNormalizeResultLike ==
  /\ pc = "idle"
  /\ \E d7 \in Inputs \cup Shapes :
     Whole("normalizeResultLike", <<d7>>, Done(normalizeResultLike(d7), <<>>))

CallIsJSONString ==
  /\ pc = "idle"
  /\ \E str \in Inputs \cup {JSONstringify(v) : v \in Inputs} \cup {Arr(<<JO(Num(1))>>)} :
     Whole("isJSONString", <<str>>, Done(Ret(Bool(isJSONString(str))), <<>>))

CallBimapResult ==
  /\ pc = "idle"
  /\ \E result \in Shapes, mapErr \in Fns, mapValue \in Fns :
     Whole("bimapResult", <<result, Fun(mapErr), Fun(mapValue)>>,
           bimapResult(result, mapErr, mapValue))

CallCoalesceResult ==
  /\ pc = "idle"
  /\ \E result \in Shapes, mapErrToOk \in Fns, mapOk \in Fns :
     Whole("coalesceResult", <<result, Fun(mapErrToOk), Fun(mapOk)>>,
           coalesceResult(result, mapErrToOk, mapOk))

CallValueOr ==
  /\ pc = "idle"
  /\ \E result \in Shapes, d \in {Num(0), Fun("tag"), Fun("identity")} :
     Whole("valueOr", <<result, d>>, valueOr(result, d))

\* mapResult(mapResult(result, f), g), and mapResult(result, x => g(f(x)))
CallMapResult ==
  /\ pc = "idle"
  /\ \E result \in Shapes, f \in Fns, g \in Fns :
     LET inner == mapResult(result, f)
         outer == IF inner.out.kind = "return" THEN mapResult(inner.out.v, g)
                  ELSE Done(inner.out, <<>>)
     IN /\ fn' = "mapResult"
        /\ arg' = <<result, Fun(f), Fun(g)>>
        /\ pc' = "done"
        /\ cur' = Undef
        /\ depth' = 1
        /\ out' = outer.out
        /\ calls' = inner.calls \o outer.calls
        /\ prev' = mapResult(result, Compose(f, g)).out

\* a function that calls itself: the first activation is about to run
Start(f, a, first) ==
  /\ fn' = f
  /\ arg' = a
  /\ pc' = f
  /\ cur' = first
  /\ depth' = 1
  /\ out' = NoOutcome
  /\ calls' = <<>>
  /\ prev' = NoOutcome

\* the activation at pc ran as b says; what matchCall returns to safeLast goes
\* on to its last line, what it throws ends safeLast too
Ran(b) ==
  /\ pc' = IF b.k # "ret" THEN b.k
           ELSE IF fn = "safeLast" /\ b.o.kind = "return" THEN "safeLastReturn"
           ELSE "done"
  /\ cur' = b.v
  /\ depth' = IF b.k = "ret" THEN depth ELSE depth + 1
  /\ out' = b.o
  /\ UNCHANGED <<fn, arg, calls, prev>>

\* mapUnknown calls itself without a bound of its own: the call that finds the
\* stack full throws a RangeError, which nothing catches
StartMapUnknown ==
  /\ pc = "idle"
  /\ \E result \in Shapes \cup {O(O(O(Num(1))))}, f \in Fns :
     Start("mapUnknown", <<result, Fun(f)>>, result)

MapUnknownStep ==
  /\ pc = "mapUnknown"
  /\ LET b == mapUnknownBody(cur, arg[2].id) IN
     IF b.k # "ret" /\ depth = MaxSteps THEN Ran(Returns(StackOverflow))
     ELSE Ran(b)

StartMatchCall ==
  /\ pc = "idle"
  /\ \E result \in Inputs, throws \in BOOLEAN :
     Start("matchCall", <<result, Bool(throws)>>, result)

MatchCallStep ==
  /\ pc = "matchCall"
  /\ Ran(Activation("matchCall", cur))

UnpackResultStep ==
  /\ pc = "unpackResult"
  /\ Ran(Activation("unpackResult", cur))

NormalizeErrorStep ==
  /\ pc = "normalizeError"
  /\ Ran(Activation("normalizeError", cur))

\* safeLast(fn, customErrorMessage, output), for an operation fn that ends as
\* o: the evaluator, matchCall, is called on what safe made of it.  safeThunk
\* and safeApi are safeLast of running a thunk and an API call.
StartSafeLast ==
  /\ pc = "idle"
  /\ \E o \in Operations :
     /\ fn' = "safeLast"
     /\ arg' = <<o>>
     /\ pc' = "matchCall"
     /\ cur' = safe(o)
     /\ depth' = 1
     /\ out' = NoOutcome
     /\ calls' = <<>>
     /\ prev' = NoOutcome

SafeLastReturn ==
  /\ pc = "safeLastReturn"
  /\ pc' = "done"
  /\ out' = safeLastReturn(out.v)
  /\ UNCHANGED <<fn, arg, cur, depth, calls, prev>>

\* matchCall(matchCall(r)): the value matchCall returned is resolved again
MatchCallAgain ==
  /\ fn = "matchCall"
  /\ pc = "done"
  /\ prev = NoOutcome
  /\ out.kind = "return"
  /\ pc' = "matchCall"
  /\ cur' = out.v
  /\ depth' = 1
  /\ prev' = out
  /\ out' = NoOutcome
  /\ UNCHANGED <<fn, arg, calls>>

Next ==
  \/ CallCreateErr
  \/ CallNormalizeResultLike
  \/ CallIsJSONString
  \/ CallBimapResult
  \/ CallCoalesceResult
  \/ CallValueOr
  \/ CallMapResult
  \/ StartMapUnknown
  \/ MapUnknownStep
  \/ StartMatchCall
  \/ MatchCallStep
  \/ UnpackResultStep
  \/ NormalizeErrorStep
  \/ MatchCallAgain
  \/ StartSafeLast
  \/ SafeLastReturn

Spec == Init /\ [][Next]_vars

\* ------------------------------------------------------------------ claims

\* the message of the Error in the failure Result a call returned
FailureMessage(o) == Get(o.v, K("error")).msg
ReturnsFailure(o) ==
  /\ o.kind = "return"
  /\ Get(o.v, K("ok")) = Bool(FALSE)
  /\ InstanceOfError(Get(o.v, K("error")))

NormalizeRule(d7) ==
  IF ~Nullish(d7) /\ Get(d7, K("ok")) = Bool(TRUE) THEN OkObj(Get(d7, K("value")))
  ELSE IF ~Nullish(d7) /\ Get(d7, K("ok")) = Bool(FALSE) /\ HasKey(d7, K("error"))
       THEN ErrObj(NewError(Get(d7, K("error"))))
  ELSE IF InstanceOfError(d7) THEN ErrObj(d7)
  ELSE IF d7.t = "object" /\ HasKey(d7, K("error"))
       THEN ErrObj(NewError(Get(d7, K("error"))))
  ELSE IF d7.t = "object" /\ HasKey(d7, K("value")) THEN OkObj(Get(d7, K("value")))
  ELSE OkObj(d7)

\* C2: normalizeResultLike(d7) returns, for every d7, the Result of the first
\* rule that matches: ok === true, ok === false with an error, an Error, an
\* object with an error key, an object with a value key, anything else (null
\* and undefined included) wrapped as a success.
C2_NormalizeEveryInput ==
  fn = "normalizeResultLike" => out = Ret(NormalizeRule(arg[1]))

\* v has a defined ok field
ResultShaped(v) == ~Nullish(v) /\ Get(v, K("ok")) # Undef

\* C3: a success Result that mapUnknown returns never holds a Result-shaped value.
C3_NoNestedSuccess ==
  (fn = "mapUnknown" /\ pc = "done" /\ out.kind = "return"
     /\ Get(out.v, K("ok")) = Bool(TRUE))
    => ~ResultShaped(Get(out.v, K("value")))

\* the function gave a Result, mapUnknown called itself on it and returned a success
C3_Witness ==
  /\ fn = "mapUnknown"
  /\ pc = "done"
  /\ depth >= 2
  /\ out.kind = "return"
  /\ Get(out.v, K("ok")) = Bool(TRUE)
  /\ ResultShaped(Apply(arg[2].id, Get(arg[1], K("value"))))

\* ok is undefined, or the field that goes with ok is missing
MalformedResult(r) ==
  \/ Get(r, K("ok")) = Undef
  \/ Get(r, K("ok")) = Bool(TRUE) /\ ~HasKey(r, K("value"))
  \/ Get(r, K("ok")) = Bool(FALSE) /\ ~HasKey(r, K("error"))

\* C4: bimapResult, coalesceResult and valueOr throw "Malformed Result object",
\* calling none of the caller's functions, whenever the input is malformed.
C4_MalformedThrows ==
  (fn \in {"bimapResult", "coalesceResult", "valueOr"} /\ MalformedResult(arg[1]))
    => out = Malformed /\ calls = <<>>

\* the first matchCall of a run has returned or thrown
Resolved == fn = "matchCall" /\ pc = "done" /\ prev = NoOutcome

\* C5: when matchCall resolves its input to an Error, the Error is thrown if
\* throws is true and returned if throws is false; for
\* { ok: false, error: { message: "x failed" } } its message is "x failed".
C5_ThrowsWhenAsked ==
  (Resolved /\ InstanceOfError(out.v)) =>
    /\ out.kind = (IF arg[2] = Bool(TRUE) THEN "throw" ELSE "return")
    /\ arg[1] = E(Obj(<<<<K("message"), Str(<<"x failed">>)>>>>))
         => out.v.msg = <<"x failed">>

\* C6 as stated: a string that does not parse as JSON is returned unchanged; one
\* that parses to a Result-shaped form resolves as that form does; any other
\* string that parses resolves to its parsed form.
C6_ParsedFormReturned ==
  (Resolved /\ arg[1].t = "string") =>
    LET p == JSONparse(arg[1]) IN
    IF ~p.ok THEN out = Ret(arg[1])
    ELSE IF ResultShaped(p.v) THEN out = matchCall(p.v)
    ELSE out = Ret(p.v)

\* C6 as amended: a string that parses as JSON to a Result-shaped form resolves
\* as that form does; every other string, parsing as JSON or not, is returned
\* unchanged.
C6_StringReturnedUnchanged ==
  (Resolved /\ arg[1].t = "string") =>
    LET p == JSONparse(arg[1]) IN
    IF p.ok /\ ResultShaped(p.v) THEN out = matchCall(p.v)
    ELSE out = Ret(arg[1])

\* a string holding the JSON text of an object that is no Result came back as it was
C6_Witness ==
  /\ Resolved
  /\ arg[1].t = "string"
  /\ JSONparse(arg[1]).ok
  /\ JSONparse(arg[1]).v.t = "object"
  /\ ~ResultShaped(JSONparse(arg[1]).v)
  /\ out = Ret(arg[1])

\* a layer that resolving peels: a Result-shaped value, a context, or a string
\* holding the JSON text of a Result-shaped value
Envelope(v) ==
  \/ ResultShaped(v)
  \/ isApiCtx(v)
  \/ isThunkCtx(v)
  \/ v.t = "string" /\ isJSONString(v) /\ ResultShaped(JSONparse(v).v)

\* { ok: true, value: v } with v no envelope, or { ok: false, error: Error }
CanonicalResult(r) ==
  \/ r = OkObj(Get(r, K("value"))) /\ ~Envelope(Get(r, K("value")))
  \/ r = ErrObj(Get(r, K("error"))) /\ InstanceOfError(Get(r, K("error")))

\* C7: resolving again what matchCall returned for a canonical Result gives the
\* same value, or an Error with the same message.
C7_Idempotent ==
  (fn = "matchCall" /\ pc = "done" /\ prev # NoOutcome /\ CanonicalResult(arg[1]))
    => out = prev

\* the Error of a canonical failure was resolved a second time
C7_Witness ==
  /\ fn = "matchCall"
  /\ pc = "done"
  /\ prev # NoOutcome
  /\ arg[1] = ErrObj(Err(<<"boom">>))
  /\ out = Ret(Err(<<"boom">>))

\* x as the value of n more JSON-encoded success Results
RECURSIVE Nested(_, _)
Nested(x, n) == IF n = 0 THEN x ELSE Nested(JO(x), n - 1)

\* the success values and the failure messages that are encoded
SuccessValues == {v \in Base : ~InstanceOfError(v)}
Messages == {v \in Base : v.t = "string"}

\* C8: the JSON encoding of a success Result of v, nested in further encoded
\* success Results, resolves to v; that of a failure with message m resolves to
\* an Error with message m.
C8_RoundTrip ==
  Resolved =>
    \A n \in 0..(MaxNest - 1) :
      /\ \A v \in SuccessValues : arg[1] = Nested(JO(v), n) => out = Ret(v)
      /\ \A m \in Messages : arg[1] = Nested(JE(m), n) => out = Ret(Err(m.s))

\* C9 as stated: isJSONString is true exactly of a string that parses as a JSON
\* object, and false of text that parses to an array.
C9_ObjectsOnly ==
  fn = "isJSONString" =>
    out = Ret(Bool(/\ arg[1].t = "string"
                   /\ JSONparse(arg[1]).ok
                   /\ JSONparse(arg[1]).v.t = "object"))

\* C9 as amended: isJSONString is true exactly when its argument, as the string
\* JSON.parse makes of it, parses to an object or an array; false when it parses
\* to a primitive or to null, or does not parse.
C9_ObjectsAndArrays ==
  fn = "isJSONString" =>
    out = Ret(Bool(/\ JSONparse(arg[1]).ok
                   /\ JSONparse(arg[1]).v.t \in {"object", "array"}))

\* the JSON text of an array was classified as a JSON string
C9_Witness ==
  /\ fn = "isJSONString"
  /\ arg[1].t = "string"
  /\ JSONparse(arg[1]).ok
  /\ JSONparse(arg[1]).v.t = "array"
  /\ out = Ret(Bool(TRUE))

Max(S) == IF S = {} THEN 0 ELSE CHOOSE x \in S : \A y \in S : y <= x

\* the envelope layers of v: objects and arrays, and strings of JSON text
RECURSIVE NestDepth(_)
NestDepth(v) ==
  CASE v.t = "object" -> 1 + Max({NestDepth(v.kv[i][2]) : i \in 1..Len(v.kv)})
    [] v.t = "array" -> 1 + Max({NestDepth(v.a[i]) : i \in 1..Len(v.a)})
    [] v.t = "string" -> IF isJSONString(v) THEN 1 + NestDepth(JSONparse(v).v) ELSE 0
    [] OTHER -> 0

\* what is left to do when the activation of p on v is about to run
Rank(p, v) ==
  CASE p = "matchCall" -> 3 * NestDepth(v) + 1
    [] p = "unpackResult" -> 3 * NestDepth(v)
    [] p = "normalizeError" -> 3 * NestDepth(v) + 2
    [] OTHER -> 0

\* the input of the matchCall that runs
Resolving == IF prev = NoOutcome THEN arg[1] ELSE prev.v

\* C10: every activation of matchCall, unpackResult and normalizeError works on
\* fewer envelope layers than the one before, so the activations of one call
\* are bounded by the nesting depth of its input; a call that has not returned
\* is in one of the three functions, whose next activation always runs.
C10_DepthBounded ==
  fn = "matchCall" =>
    /\ depth + Rank(pc, cur) <= 3 * NestDepth(Resolving) + 2
    /\ pc \in {"matchCall", "unpackResult", "normalizeError", "done"}
    /\ pc # "done" => Activation(pc, cur).k \in {"ret", "matchCall", "unpackResult", "normalizeError"}

\* a call that went through matchCall, unpackResult and normalizeError returned
C10_Witness ==
  /\ Resolved
  /\ depth >= 6
  /\ NestDepth(arg[1]) >= 2

\* C11: safeLast never ends by throwing, whatever the operation returned or
\* threw: it returns a Result with cata, and the value of a success it returns
\* is not Result-shaped.
C11_SafeLastNeverThrows ==
  (fn = "safeLast" /\ pc = "done") =>
    /\ out.kind = "return"
    /\ Get(out.v, K("ok")).t = "boolean"
    /\ Get(out.v, K("cata")).t = "function"
    /\ Get(out.v, K("ok")) = Bool(TRUE) => ~ResultShaped(Get(out.v, K("value")))

\* C12: for a success Result r, mapResult(mapResult(r, f), g) returns what
\* mapResult(r, x => g(f(x))) returns, a success Result, and calls f once, on
\* the value of r, and then g once, on what f returned.
C12_MapComposition ==
  (fn = "mapResult" /\ isOk(arg[1])) =>
    LET value == Get(arg[1], K("value")) IN
    /\ out = prev
    /\ out.kind = "return"
    /\ Get(out.v, K("ok")) = Bool(TRUE)
    /\ calls = << <<arg[2].id, value>>, <<arg[3].id, Apply(arg[2].id, value)>> >>

\* a success was mapped by tag twice: its value is tagged twice
C12_Witness ==
  /\ fn = "mapResult"
  /\ arg = <<O(Num(MaxNum)), Fun("tag"), Fun("tag")>>
  /\ out = Ret(O(Obj(<<<<K("tag"), Obj(<<<<K("tag"), Num(MaxNum)>>>>)>>>>)))
  /\ Len(calls) = 2

\* the first matchCall was given a success Result whose value unpackResult
\* returns: no API context, no thunk context, no JSON text of a Result
UnpacksToValue ==
  /\ Resolved
  /\ arg[1].t = "object"
  /\ isOk(arg[1])
  /\ LET value == Get(arg[1], K("value")) IN
     /\ ~isApiCtx(value)
     /\ ~isThunkCtx(value)
     /\ ~(value.t = "string" /\ isJSONString(value) /\ ResultShaped(JSONparse(value).v))

\* C13 as stated: the value unpackResult gives for a success Result is what
\* matchCall returns, as it is, a Result-shaped object or an Error included.
C13_ValueVerbatim ==
  UnpacksToValue => out = Ret(Get(arg[1], K("value")))

\* C13 as amended: matchCall resolves the value unpackResult gives for a success
\* Result: a Result-shaped value resolves as it does on its own, an Error comes
\* back as a new Error with its message, or with String(error) when the message
\* is empty, and every other value is returned as it is.
C13_ValueResolvedAgain ==
  UnpacksToValue =>
    LET value == Get(arg[1], K("value")) IN
    IF ResultShaped(value) THEN out = matchCall(value)
    ELSE IF InstanceOfError(value)
         THEN out = Ret(Err(IF value.msg # <<>> THEN value.msg ELSE ToStr(value)))
    ELSE out = Ret(value)

\* a success Result held in the success slot was unwrapped to its value
C13_Witness ==
  /\ UnpacksToValue
  /\ arg[1] = O(O(Num(MaxNum)))
  /\ out = Ret(Num(MaxNum))

\* C14: for a failure Result, { ok: false, error: e } with any e, matchCall
\* returns an Error, never a plain value, null or undefined.
C14_FailureResolvesToError ==
  (Resolved /\ arg[1].t = "object" /\ isErr(arg[1]))
    => out.kind = "return" /\ InstanceOfError(out.v)

\* C15: whatever the Result and the function it is given, the recursion of
\* mapUnknown comes to an activation that returns: no call of mapUnknown goes
\* on until the call stack is full.
C15_MapUnknownTerminates ==
  (fn = "mapUnknown" /\ pc = "done") => out # StackOverflow

====
